---- MODULE Spec2Model ----
(***************************************************************************)
(* A model of meain/refer: the ingestion pipeline (FetchDocument,          *)
(* AddDocument, the AddDocuments worker pool), the sqlite/vec0 store       *)
(* (documents and config tables), the command dispatch of main and the     *)
(* search of one or several queries.                                       *)
(*                                                                         *)
(* Specifications:                                                         *)
(*   Spec       one call of AddDocuments, the context never cancelled      *)
(*   SpecCancel the same call, the caller may cancel the context           *)
(*   FairSpec   Spec, a runnable goroutine eventually takes a step         *)
(*   SpecCLI    a sequence of invocations of the command line              *)
(*   SpecSearch searches, of one or several queries, of a given store      *)
(*   SpecAdd    calls of fileutil.AddDocument, one path at a time          *)
(*   SpecInit   calls of InitDatabase on a new or an existing database     *)
(*   SpecSide   an add and a reindex process on one database             *)
(*   SpecRemove calls of RemoveDocument on a given store                    *)
(***************************************************************************)
EXTENDS Integers, Sequences, FiniteSets, TLC

\* ------------------------------------------------------------------ bounds

\* Longest batch handed to AddDocuments.
MaxPaths == 2

\* Largest explicit maxWorkers argument tried (0 selects the default).
MaxWorkersArg == 2

\* ------------------------------------------------- the program's constants

maxParallelEmbeddingRequests == 10

\* Dimension of the documents table a store is created with.
EmbeddingDim == 768

\* isTextFile sniffs at most this many bytes.
SniffLimit == 512

\* --------------------------------------------------------------- the world
\* The file system and the embedding service the program talks to.  A path
\* names the same kind of thing throughout a behaviour; the content of a
\* text file is state (fs) and may be edited between invocations.

TextPaths == {"a.txt", "b.txt"}

Paths == TextPaths \cup {"docs", "logo.png", "gone.txt", "huge.txt"}

\* os.Stat: a missing path is an error, "docs" is a directory.
StatKind(path) ==
  IF path = "gone.txt" THEN "error"
  ELSE IF path = "docs" THEN "dir"
  ELSE "file"

\* Regular files that os.Stat finds and os.ReadFile cannot always read.
FilePaths == Paths \cup {"locked.txt", "flaky.txt"}

\* os.ReadFile fails: "locked.txt" may not be read at all; "flaky.txt" is
\* read once and has become unreadable at the second read.  nth counts the
\* reads one AddDocument makes of the path.
ReadFails(path, nth) ==
  \/ path = "locked.txt"
  \/ path = "flaky.txt" /\ nth >= 2

Contents == {"v0", "v1", "v2"}

\* The bytes os.ReadFile returns for a content.
Bytes(content) ==
  CASE content = "v0" -> <<99, 97, 116>>
    [] content = "v1" -> <<99, 97, 116, 115>>
    [] content = "v2" -> <<99, 97, 102, 233>>
    [] content = "png" -> <<137, 80, 78, 71>>
    [] content = "huge" -> <<104, 117, 103, 101>>
    [] OTHER -> <<>>

\* The embedding models a configuration may name, and the vector length
\* each answers with.
Models == {"nomic-embed-text", "bge-base", "mxbai-embed-large"}

ModelDim(model) == IF model = "mxbai-embed-large" THEN 1024 ELSE 768

\* The embedding service answers any status but 200 for this text.
ServiceRejects(text) == text = "huge"

\* ------------------------------------------------------------------- state

VARIABLES
  \* the store
  docs,        \* rows of the documents table
  nextRowid,   \* AUTOINCREMENT
  tableDim,    \* N of the table's "embedding float[N]" column
  \* the world
  fs,          \* content of every regular file
  Model,       \* the configured embedding model (global Model)
  uniqueEnforced, \* the vec0 module enforces the UNIQUE of "filepath TEXT UNIQUE"
  cancelled,   \* ctx.Done() is closed
  atCancel,    \* history: the paths stored when ctx was cancelled
  \* the command line
  dbExists,    \* the database file exists
  config,      \* rows of the config table, oldest first
  last,        \* history: what the last step (an invocation or an edit) did
  procs,       \* invocation -> where a refer process running beside another is
  \* AddDocuments
  paths, maxWorkers,
  pc,          \* where AddDocuments itself is
  spawned,     \* worker goroutines started
  sent,        \* paths sent to pathChan
  pathChan, pathClosed,
  errChan, errClosed,
  idle,        \* workers blocked in "range pathChan"
  exited,      \* workers that ran wg.Done()
  inflight,    \* item -> the state of the worker inside AddDocument on it
  waiter,      \* the goroutine running wg.Wait(); close(errChan)
  errors,      \* the list AddDocuments collects
  results      \* history: what AddDocument returned on each item

storeVars == <<docs, nextRowid, tableDim>>
worldVars == <<fs, Model, uniqueEnforced>>
ctxVars == <<cancelled, atCancel>>
cliVars == <<dbExists, config, last, procs>>
poolVars == <<paths, maxWorkers, pc, spawned, sent, pathChan, pathClosed,
              errChan, errClosed, idle, exited, inflight, waiter, errors,
              results>>
vars == <<storeVars, worldVars, ctxVars, cliVars, poolVars>>

\* ------------------------------------------------------------ pure helpers

isPrintable(b) == (b >= 32 /\ b <= 126) \/ (b >= 192 /\ b <= 255)

\* isTextFile: no NUL and no non-printable high byte among the first
\* SniffLimit bytes; an empty file is text.
isTextBytes(data) ==
  LET head == IF Len(data) > SniffLimit THEN SubSeq(data, 1, SniffLimit) ELSE data
  IN  \A k \in 1..Len(head) : ~(head[k] = 0 \/ (head[k] > 127 /\ ~isPrintable(head[k])))

\* A file that cannot be read is reported as not being a text file.
isTextFile(files, path) ==
  IF ReadFails(path, 1) THEN FALSE ELSE isTextBytes(Bytes(files[path]))

\* validateLocalFile: "" when the path may be processed, else the error.
validateLocalFile(files, path) ==
  IF StatKind(path) = "error" THEN "stat file"
  ELSE IF StatKind(path) = "dir" THEN "path is a directory"
  ELSE IF ~isTextFile(files, path) THEN "not a text file"
  ELSE ""

\* fetchLocalDocument / FetchDocument for a local path.
FetchDocument(files, path) ==
  LET verr == validateLocalFile(files, path)
  IN  IF verr # ""
      THEN [err |-> verr, doc |-> [Path |-> path, Content |-> "", Title |-> ""]]
      ELSE IF ReadFails(path, 2)
      THEN [err |-> "read file", doc |-> [Path |-> path, Content |-> "", Title |-> ""]]
      ELSE [err |-> "",
            doc |-> [Path |-> path, Content |-> files[path], Title |-> path]]

\* CreateEmbedding: the request carries ctx, so a cancelled context fails it;
\* the vector is the configured model's embedding of the text.
CreateEmbedding(ctxDone, model, text) ==
  IF ctxDone THEN [err |-> "context canceled", vec |-> [model |-> model, text |-> ""]]
  ELSE IF ServiceRejects(text)
       THEN [err |-> "unexpected status code", vec |-> [model |-> model, text |-> ""]]
       ELSE [err |-> "", vec |-> [model |-> model, text |-> text]]

VecLen(vec) == ModelDim(vec.model)

\* Mutant: the DELETE lost its WHERE clause.
DeleteEveryRow(rows, path) == {}

\* DELETE FROM documents WHERE filepath = ?
DeleteByPath(rows, path) == {r \in rows : r.filepath # path}

\* INSERT INTO documents(filepath, content, title, embedding): the table
\* declares embedding float[dim] and filepath UNIQUE.  The table is a vec0
\* virtual table, whose module is not part of the repository: unique says
\* whether it enforces the column constraint or accepts and ignores it.
InsertDocument(rows, dim, unique, rowid, doc, vec) ==
  IF VecLen(vec) # dim
  THEN [err |-> "dimension mismatch", rows |-> rows]
  ELSE IF unique /\ \E r \in rows : r.filepath = doc.Path
       THEN [err |-> "UNIQUE constraint failed", rows |-> rows]
       ELSE [err |-> "",
             rows |-> rows \cup {[rowid |-> rowid, filepath |-> doc.Path,
                                  content |-> doc.Content, title |-> doc.Title,
                                  embedding |-> vec]}]

\* Mutant: the maxWorkers argument is ignored.
AlwaysDefaultWorkers(w) == maxParallelEmbeddingRequests

\* The number of workers AddDocuments starts.
NumWorkers(w) == IF w <= 0 THEN maxParallelEmbeddingRequests ELSE w

\* ---------------------------------------------------- AddDocuments: inputs

SeqsUpTo(S, n) == UNION {[1..k -> S] : k \in 0..n}

Items == 1..Len(paths)

\* A row as an earlier run with the given model stored it.
OldRow(id, path, model) ==
  [rowid |-> id, filepath |-> path, content |-> "v0", title |-> path,
   embedding |-> [model |-> model, text |-> "v0"]]

\* The history record before any invocation, and after an edit of the world.
NoInvocation ==
  [cmd |-> "none", exit |-> "none", embedded |-> FALSE, searched |-> FALSE,
   log |-> <<>>, list |-> <<>>, notice |-> "", query |-> "", limit |-> 0]

\* The two invocations that may be started side by side on one database.
Invocations == {"add", "reindex"}

\* No refer process has been started.
NoProcs == [i \in Invocations |-> [at |-> "start", todo |-> <<>>]]

InitFs == [p \in FilePaths |->
            IF p \in TextPaths \cup {"locked.txt", "flaky.txt"} THEN "v1"
            ELSE IF p = "logo.png" THEN "png"
            ELSE IF p = "huge.txt" THEN "huge"
            ELSE ""]

Init ==
  /\ paths \in SeqsUpTo(Paths, MaxPaths)
  /\ maxWorkers \in 0..MaxWorkersArg
  /\ \E stored \in {{}, {"a.txt"}} :
        /\ docs = {OldRow(1, p, "nomic-embed-text") : p \in stored}
        /\ nextRowid = Cardinality(stored) + 1
  /\ tableDim = EmbeddingDim
  /\ fs = InitFs
  /\ Model \in {"nomic-embed-text", "mxbai-embed-large"}
  /\ uniqueEnforced \in BOOLEAN
  /\ cancelled = FALSE
  /\ atCancel = {}
  /\ dbExists = TRUE
  /\ config = <<[key |-> "embedding_model", value |-> "nomic-embed-text"]>>
  /\ last = NoInvocation
  /\ procs = NoProcs
  /\ pc = "spawn"
  /\ spawned = 0
  /\ sent = 0
  /\ pathChan = <<>>
  /\ pathClosed = FALSE
  /\ errChan = <<>>
  /\ errClosed = FALSE
  /\ idle = 0
  /\ exited = 0
  /\ inflight = <<>>
  /\ waiter = "none"
  /\ errors = <<>>
  /\ results = [i \in 1..Len(paths) |-> <<>>]

\* --------------------------------------------------- AddDocuments: the pool

\* What a worker does with AddDocument's return value: one message on
\* errChan (nil is ""), then back to "range pathChan".
Report(i, err) ==
  /\ errChan' = Append(errChan, [path |-> paths[i], err |-> err])
  /\ results' = [results EXCEPT ![i] = Append(@, IF err = "" THEN "ok" ELSE "err")]

Drop(f, i) == [j \in DOMAIN f \ {i} |-> f[j]]

Put(f, i, v) == [j \in DOMAIN f \cup {i} |-> IF j = i THEN v ELSE f[j]]

\* go func() { defer wg.Done(); for path := range pathChan ... }()
StartWorker ==
  /\ pc = "spawn"
  /\ spawned < NumWorkers(maxWorkers)
  /\ spawned' = spawned + 1
  /\ idle' = idle + 1
  /\ pc' = IF spawned + 1 = NumWorkers(maxWorkers) THEN "send" ELSE "spawn"
  /\ UNCHANGED <<storeVars, worldVars, ctxVars, cliVars, paths, maxWorkers, sent,
                 pathChan, pathClosed, errChan, errClosed, exited, inflight,
                 waiter, errors, results>>

\* pathChan <- path (the channel's capacity is len(paths): never blocks)
SendPath ==
  /\ pc = "send"
  /\ sent < Len(paths)
  /\ pathChan' = Append(pathChan, sent + 1)
  /\ sent' = sent + 1
  /\ UNCHANGED <<storeVars, worldVars, ctxVars, cliVars, paths, maxWorkers, pc,
                 spawned, pathClosed, errChan, errClosed, idle, exited,
                 inflight, waiter, errors, results>>

\* Mutant: pathChan is never closed.
ForgetClosePathChan ==
  /\ pc = "send"
  /\ sent = Len(paths)
  /\ pc' = "wait"
  /\ UNCHANGED <<storeVars, worldVars, ctxVars, cliVars, paths, maxWorkers, spawned,
                 sent, pathChan, pathClosed, errChan, errClosed, idle, exited,
                 inflight, waiter, errors, results>>

\* close(pathChan)
ClosePathChan ==
  /\ pc = "send"
  /\ sent = Len(paths)
  /\ pathClosed' = TRUE
  /\ pc' = "wait"
  /\ UNCHANGED <<storeVars, worldVars, ctxVars, cliVars, paths, maxWorkers, spawned,
                 sent, pathChan, errChan, errClosed, idle, exited, inflight,
                 waiter, errors, results>>

\* go func() { wg.Wait(); close(errChan) }()
StartWaiter ==
  /\ pc = "wait"
  /\ waiter' = "waiting"
  /\ pc' = "collect"
  /\ UNCHANGED <<storeVars, worldVars, ctxVars, cliVars, paths, maxWorkers, spawned,
                 sent, pathChan, pathClosed, errChan, errClosed, idle, exited,
                 inflight, errors, results>>

\* wg.Wait() returns when every started worker ran wg.Done()
WaiterClose ==
  /\ waiter = "waiting"
  /\ exited = spawned
  /\ errClosed' = TRUE
  /\ waiter' = "done"
  /\ UNCHANGED <<storeVars, worldVars, ctxVars, cliVars, paths, maxWorkers, pc,
                 spawned, sent, pathChan, pathClosed, errChan, idle, exited,
                 inflight, errors, results>>

\* Mutant: the collector appends nil errors too.
CollectEverything ==
  /\ pc = "collect"
  /\ errChan # <<>>
  /\ errChan' = Tail(errChan)
  /\ errors' = Append(errors, Head(errChan))
  /\ UNCHANGED <<storeVars, worldVars, ctxVars, cliVars, paths, maxWorkers, pc,
                 spawned, sent, pathChan, pathClosed, errClosed, idle, exited,
                 inflight, waiter, results>>

\* for err := range errChan { if err != nil { errors = append(errors, err) } }
Collect ==
  /\ pc = "collect"
  /\ errChan # <<>>
  /\ errChan' = Tail(errChan)
  /\ errors' = IF Head(errChan).err # "" THEN Append(errors, Head(errChan)) ELSE errors
  /\ UNCHANGED <<storeVars, worldVars, ctxVars, cliVars, paths, maxWorkers, pc,
                 spawned, sent, pathChan, pathClosed, errClosed, idle, exited,
                 inflight, waiter, results>>

\* the range over errChan ends once it is closed and drained: return errors
Return ==
  /\ pc = "collect"
  /\ errChan = <<>>
  /\ errClosed
  /\ pc' = "returned"
  /\ UNCHANGED <<storeVars, worldVars, ctxVars, cliVars, paths, maxWorkers, spawned,
                 sent, pathChan, pathClosed, errChan, errClosed, idle, exited,
                 inflight, waiter, errors, results>>

\* Mutant: a worker whose item fails to fetch returns instead of going on
\* with the next path.
WorkerFetchQuitsOnError ==
  /\ idle > 0
  /\ pathChan # <<>>
  /\ LET i == Head(pathChan)
         f == FetchDocument(fs, paths[i])
     IN  /\ pathChan' = Tail(pathChan)
         /\ idle' = idle - 1
         /\ IF f.err # ""
            THEN /\ Report(i, f.err)
                 /\ exited' = exited + 1
                 /\ UNCHANGED inflight
            ELSE /\ inflight' = Put(inflight, i, [at |-> "embed", doc |-> f.doc,
                                                  vec |-> [model |-> Model, text |-> ""]])
                 /\ UNCHANGED <<errChan, results, exited>>
  /\ UNCHANGED <<storeVars, worldVars, ctxVars, cliVars, paths, maxWorkers, pc,
                 spawned, sent, pathClosed, errClosed, waiter, errors>>

\* A worker receives the next path and runs AddDocument up to FetchDocument.
WorkerFetch ==
  /\ idle > 0
  /\ pathChan # <<>>
  /\ LET i == Head(pathChan)
         f == FetchDocument(fs, paths[i])
     IN  /\ pathChan' = Tail(pathChan)
         /\ IF f.err # ""
            THEN /\ Report(i, f.err)
                 /\ UNCHANGED <<idle, inflight>>
            ELSE /\ idle' = idle - 1
                 /\ inflight' = Put(inflight, i, [at |-> "embed", doc |-> f.doc,
                                                  vec |-> [model |-> Model, text |-> ""]])
                 /\ UNCHANGED <<errChan, results>>
  /\ UNCHANGED <<storeVars, worldVars, ctxVars, cliVars, paths, maxWorkers, pc,
                 spawned, sent, pathClosed, errClosed, exited, waiter, errors>>

\* createAndSerializeEmbedding
WorkerEmbed(i) ==
  /\ i \in DOMAIN inflight
  /\ inflight[i].at = "embed"
  /\ LET e == CreateEmbedding(cancelled, Model, inflight[i].doc.Content)
     IN  IF e.err # ""
         THEN /\ Report(i, e.err)
              /\ inflight' = Drop(inflight, i)
              /\ idle' = idle + 1
         ELSE /\ inflight' = [inflight EXCEPT ![i].at = "delete", ![i].vec = e.vec]
              /\ UNCHANGED <<errChan, results, idle>>
  /\ UNCHANGED <<storeVars, worldVars, ctxVars, cliVars, paths, maxWorkers, pc,
                 spawned, sent, pathChan, pathClosed, errClosed, exited,
                 waiter, errors>>

\* updateDocument, first statement
WorkerDelete(i) ==
  /\ i \in DOMAIN inflight
  /\ inflight[i].at = "delete"
  /\ docs' = DeleteByPath(docs, inflight[i].doc.Path)
  /\ inflight' = [inflight EXCEPT ![i].at = "insert"]
  /\ UNCHANGED <<nextRowid, tableDim, worldVars, ctxVars, cliVars, paths, maxWorkers,
                 pc, spawned, sent, pathChan, pathClosed, errChan, errClosed,
                 idle, exited, waiter, errors, results>>

\* updateDocument, second statement, and AddDocument's return
WorkerInsert(i) ==
  /\ i \in DOMAIN inflight
  /\ inflight[i].at = "insert"
  /\ LET r == InsertDocument(docs, tableDim, uniqueEnforced, nextRowid,
                              inflight[i].doc, inflight[i].vec)
     IN  /\ docs' = r.rows
         /\ nextRowid' = IF r.err = "" THEN nextRowid + 1 ELSE nextRowid
         /\ Report(i, r.err)
  /\ inflight' = Drop(inflight, i)
  /\ idle' = idle + 1
  /\ UNCHANGED <<tableDim, worldVars, ctxVars, cliVars, paths, maxWorkers, pc,
                 spawned, sent, pathChan, pathClosed, errClosed, exited,
                 waiter, errors>>

\* "range pathChan" ends on a closed, drained channel: deferred wg.Done()
WorkerExit ==
  /\ idle > 0
  /\ pathChan = <<>>
  /\ pathClosed
  /\ idle' = idle - 1
  /\ exited' = exited + 1
  /\ UNCHANGED <<storeVars, worldVars, ctxVars, cliVars, paths, maxWorkers, pc,
                 spawned, sent, pathChan, pathClosed, errChan, errClosed,
                 inflight, waiter, errors, results>>

\* The caller cancels ctx while AddDocuments runs.
Cancel ==
  /\ pc # "returned"
  /\ ~cancelled
  /\ cancelled' = TRUE
  /\ atCancel' = {r.filepath : r \in docs}
  /\ UNCHANGED <<storeVars, worldVars, cliVars, poolVars>>

WorkerStep ==
  \/ WorkerFetch
  \/ \E i \in 1..MaxPaths + 1 : WorkerEmbed(i)
  \/ \E i \in 1..MaxPaths + 1 : WorkerDelete(i)
  \/ \E i \in 1..MaxPaths + 1 : WorkerInsert(i)
  \/ WorkerExit

MainStep ==
  \/ StartWorker
  \/ SendPath
  \/ ClosePathChan
  \/ StartWaiter
  \/ Collect
  \/ Return

Next == MainStep \/ WorkerStep \/ WaiterClose

Spec == Init /\ [][Next]_vars

NextCancel == Next \/ Cancel

SpecCancel == Init /\ [][NextCancel]_vars

\* The Go scheduler runs a goroutine that can take a step: as long as
\* AddDocuments itself, a worker or the goroutine waiting on the WaitGroup
\* is runnable, one of them eventually runs.
FairSpec == Init /\ [][Next]_vars /\ WF_vars(Next)

\* ------------------------------------------------------- the config table

\* SaveConfig as main calls it, with one key: CREATE TABLE IF NOT EXISTS
\* config (key TEXT, value TEXT), then a plain INSERT.  The table has no
\* key constraint: every call adds a row.
SaveConfig(rows, key, value) == Append(rows, [key |-> key, value |-> value])

\* GetConfig()[key]: the rows are scanned in insertion order into a map, so
\* the last row with the key wins; a key the map lacks reads as "".
ConfigValue(rows, key) ==
  LET hits == SelectSeq(rows, LAMBDA r : r.key = key)
  IN  IF hits = <<>> THEN "" ELSE hits[Len(hits)].value

\* ------------------------------------------------ AddDocument, sequential

\* AddDocument of package internal run to completion on a store s = [docs, nextRowid]:
\* FetchDocument, createAndSerializeEmbedding, updateDocument.
AddDocument(s, files, ctxDone, model, dim, unique, path) ==
  LET f == FetchDocument(files, path)
      e == CreateEmbedding(ctxDone, model, f.doc.Content)
      r == InsertDocument(DeleteByPath(s.docs, path), dim, unique, s.nextRowid,
                          f.doc, e.vec)
  IN  IF f.err # "" THEN [err |-> f.err, embedded |-> FALSE, s |-> s]
      ELSE IF e.err # "" THEN [err |-> e.err, embedded |-> TRUE, s |-> s]
      ELSE [err |-> r.err, embedded |-> TRUE,
            s |-> [docs |-> r.rows,
                   nextRowid |-> IF r.err = "" THEN s.nextRowid + 1 ELSE s.nextRowid]]

\* Mutant: the existing row is not deleted before the insert.
fileutil_AddDocumentNoDelete(s, files, ctxDone, model, dim, path) ==
  LET e == CreateEmbedding(ctxDone, model, files[path])
      row == [rowid |-> s.nextRowid, filepath |-> path, content |-> files[path],
              title |-> path, embedding |-> e.vec]
  IN  IF StatKind(path) = "error"
      THEN [err |-> "failed to stat file", embedded |-> FALSE, stored |-> FALSE, s |-> s]
      ELSE IF StatKind(path) = "dir" \/ ~isTextFile(files, path)
      THEN [err |-> "", embedded |-> FALSE, stored |-> FALSE, s |-> s]
      ELSE IF ReadFails(path, 2)
      THEN [err |-> "failed to read file", embedded |-> FALSE, stored |-> FALSE,
            s |-> s]
      ELSE IF e.err # ""
      THEN [err |-> "failed to create embedding", embedded |-> TRUE,
            stored |-> FALSE, s |-> s]
      ELSE IF VecLen(e.vec) # dim
      THEN [err |-> "failed to insert document", embedded |-> TRUE,
            stored |-> FALSE, s |-> s]
      ELSE [err |-> "", embedded |-> TRUE, stored |-> TRUE,
            s |-> [docs |-> s.docs \cup {row}, nextRowid |-> s.nextRowid + 1]]

\* fileutil.AddDocument, the one main calls, run to completion on a store
\* s = [docs, nextRowid]: a directory and a binary file return nil and store
\* nothing; the embedding is made first, then SELECT EXISTS, DELETE, INSERT
\* (the documents table of package db has no UNIQUE constraint).
fileutil_AddDocument(s, files, ctxDone, model, dim, path) ==
  LET e == CreateEmbedding(ctxDone, model, files[path])
      exists == \E r \in s.docs : r.filepath = path
      kept == IF exists THEN DeleteByPath(s.docs, path) ELSE s.docs
      row == [rowid |-> s.nextRowid, filepath |-> path, content |-> files[path],
              title |-> path, embedding |-> e.vec]
  IN  IF StatKind(path) = "error"
      THEN [err |-> "failed to stat file", embedded |-> FALSE, stored |-> FALSE, s |-> s]
      ELSE IF StatKind(path) = "dir" \/ ~isTextFile(files, path)
      THEN [err |-> "", embedded |-> FALSE, stored |-> FALSE, s |-> s]
      ELSE IF ReadFails(path, 2)
      THEN [err |-> "failed to read file", embedded |-> FALSE, stored |-> FALSE,
            s |-> s]
      ELSE IF e.err # ""
      THEN [err |-> "failed to create embedding", embedded |-> TRUE,
            stored |-> FALSE, s |-> s]
      ELSE IF VecLen(e.vec) # dim
      THEN [err |-> "failed to insert document", embedded |-> TRUE,
            stored |-> FALSE, s |-> [docs |-> kept, nextRowid |-> s.nextRowid]]
      ELSE [err |-> "", embedded |-> TRUE, stored |-> TRUE,
            s |-> [docs |-> kept \cup {row}, nextRowid |-> s.nextRowid + 1]]

\* fileutil.AddDocument on each path of a list in turn; main logs every
\* error and goes on.  acc = [s, log, embedded]; a log entry records the
\* path, the error, whether CreateEmbedding was called, whether a row was
\* inserted and whether the path was stored before the call.
RECURSIVE AddEach(_, _, _, _, _)
AddEach(acc, files, model, dim, list) ==
  IF list = <<>> THEN acc
  ELSE LET p == Head(list)
           a == fileutil_AddDocument(acc.s, files, FALSE, model, dim, p)
           had == \E r \in acc.s.docs : r.filepath = p
       IN  AddEach([s |-> a.s,
                    log |-> Append(acc.log, [path |-> p, err |-> a.err,
                                             embedded |-> a.embedded,
                                             stored |-> a.stored, replaced |-> had]),
                    embedded |-> acc.embedded \/ a.embedded],
                   files, model, dim, Tail(list))

\* ------------------------------------------------------- the command line

\* Largest rowid the model lets the store hand out.
MaxRowid == 3

\* Most rows the model lets the config table grow to.
MaxConfigRows == 3

\* The argument lists given to "add".
AddArgLists ==
  {<<"a.txt">>, <<"b.txt">>, <<"a.txt", "a.txt">>, <<"a.txt", "b.txt">>,
   <<"gone.txt">>, <<"docs">>, <<"huge.txt">>}

Queries == {"feline pets", "huge"}

\* filepath.WalkDir(f, ...): the non-directory entries the callback is
\* called on; a missing root is reported to the callback as an error.
WalkDir(root) ==
  IF StatKind(root) = "file" THEN <<root>>
  ELSE IF StatKind(root) = "dir" THEN <<"logo.png">>
  ELSE <<>>

RECURSIVE WalkAll(_)
WalkAll(args) ==
  IF args = <<>> THEN <<>> ELSE WalkDir(Head(args)) \o WalkAll(Tail(args))

\* GetAllDocuments, as the list of paths in rowid order.
RECURSIVE PathsByRowid(_)
PathsByRowid(rows) ==
  IF rows = {} THEN <<>>
  ELSE LET first == CHOOSE r \in rows : \A q \in rows : r.rowid <= q.rowid
       IN  <<first.filepath>> \o PathsByRowid(rows \ {first})

\* Mutant: the check is made for add only.
GuardsAddOnly == {"add"}

\* The commands main checks the stored model for.
GuardedCommands == {"add", "search"}

\* The model check main makes on an existing database.
ModelMismatch(cmd, isNew, rows, model) ==
  /\ ~isNew
  /\ cmd \in GuardedCommands
  /\ ConfigValue(rows, "embedding_model") # model

\* The distance vec0 reports between the embedding of a query text and the
\* embedding of a document text (the same for every model here).  Documents
\* of equal content are at equal distance.
Distance(qtext, dtext) ==
  IF qtext = "feline pets"
  THEN CASE dtext = "v0" -> 1 [] dtext = "v1" -> 2 [] OTHER -> 3
  ELSE CASE dtext = "v0" -> 3 [] dtext = "v1" -> 2 [] OTHER -> 1

\* The rows of a result set before the limit, ORDER BY distance (rows at
\* the same distance in rowid order).
RECURSIVE OrderByDistance(_, _)
OrderByDistance(rows, qvec) ==
  IF rows = {} THEN <<>>
  ELSE LET d(r) == Distance(qvec.text, r.embedding.text)
           first == CHOOSE r \in rows :
                      \A o \in rows :
                         d(r) < d(o) \/ (d(r) = d(o) /\ r.rowid <= o.rowid)
       IN  <<[rowid |-> first.rowid, path |-> first.filepath,
              content |-> first.content, distance |-> d(first)]>>
           \o OrderByDistance(rows \ {first}, qvec)

\* Mutant: the query lost its LIMIT.
NearestNoLimit(rows, qvec, limit) == OrderByDistance(rows, qvec)

\* SELECT rowid, filepath, content, title, distance FROM documents
\* WHERE embedding match ? ORDER BY distance LIMIT ?
Nearest(rows, qvec, limit) ==
  LET ordered == OrderByDistance(rows, qvec)
  IN  SubSeq(ordered, 1, IF limit < Len(ordered) THEN limit ELSE Len(ordered))

\* Mutant: a search that finds nothing fails.
EmptyIsAnError(rows, qvec, limit) ==
  LET found == Nearest(rows, qvec, limit)
  IN  [err |-> IF found = <<>> THEN "no results" ELSE "", list |-> found,
       notice |-> ""]

\* SearchDocuments, format "names": the rows found, printed one per line,
\* and "No results found." when there are none; no error either way.
SearchDocuments(rows, qvec, limit) ==
  LET found == Nearest(rows, qvec, limit)
  IN  [err |-> "", list |-> found,
       notice |-> IF Len(found) = 0 THEN "No results found." ELSE ""]

\* GetAllDocuments as show prints it: "[id] path", in rowid order.
RECURSIVE GetAllDocuments(_)
GetAllDocuments(rows) ==
  IF rows = {} THEN <<>>
  ELSE LET first == CHOOSE r \in rows : \A q \in rows : r.rowid <= q.rowid
       IN  <<[rowid |-> first.rowid, path |-> first.filepath]>>
           \o GetAllDocuments(rows \ {first})

\* Mutant: the DELETE matches no row.
RemoveDocumentKeepsRow(rows, id) ==
  IF \E r \in rows : r.rowid = id
  THEN [err |-> "", rows |-> rows]
  ELSE [err |-> "no document found", rows |-> rows]

\* Mutant: the DELETE has no WHERE clause.
RemoveDocumentDeletesAll(rows, id) ==
  IF \E r \in rows : r.rowid = id
  THEN [err |-> "", rows |-> {}]
  ELSE [err |-> "no document found", rows |-> rows]

\* RemoveDocument
RemoveDocument(rows, id) ==
  IF \E r \in rows : r.rowid = id
  THEN [err |-> "", rows |-> {r \in rows : r.rowid # id}]
  ELSE [err |-> "no document found", rows |-> rows]

\* What the switch of main does for one command: the store it leaves, how
\* the switch ends ("ok" falls through to SaveConfig, "early" is show's
\* return on an empty store, "fatal" is log.Fatalf) and what it ran.
RunCommand(cmd, arg, s, files, model, dim) ==
  CASE cmd = "add" ->
         LET a == AddEach([s |-> s, log |-> <<>>, embedded |-> FALSE],
                          files, model, dim, WalkAll(arg))
         IN  [s |-> a.s, exit |-> "ok", embedded |-> a.embedded,
              searched |-> FALSE, log |-> a.log, list |-> <<>>, notice |-> ""]
    [] cmd = "reindex" ->
         LET a == AddEach([s |-> s, log |-> <<>>, embedded |-> FALSE],
                          files, model, dim, PathsByRowid(s.docs))
         IN  [s |-> a.s, exit |-> "ok", embedded |-> a.embedded,
              searched |-> FALSE, log |-> a.log, list |-> <<>>, notice |-> ""]
    [] cmd = "search" ->
         LET q == CreateEmbedding(FALSE, model, arg.query)
         IN  IF q.err # ""
             THEN [s |-> s, exit |-> "fatal", embedded |-> TRUE,
                   searched |-> FALSE, log |-> <<>>, list |-> <<>>, notice |-> ""]
             ELSE IF VecLen(q.vec) # dim
                  THEN [s |-> s, exit |-> "fatal", embedded |-> TRUE,
                        searched |-> FALSE, log |-> <<>>, list |-> <<>>, notice |-> ""]
                  ELSE LET r == SearchDocuments(s.docs, q.vec, arg.limit)
                       IN  [s |-> s, exit |-> IF r.err # "" THEN "fatal" ELSE "ok",
                            embedded |-> TRUE, searched |-> TRUE, log |-> <<>>,
                            list |-> r.list, notice |-> r.notice]
    [] cmd = "show" ->
         [s |-> s, exit |-> IF s.docs = {} THEN "early" ELSE "ok",
          embedded |-> FALSE, searched |-> FALSE, log |-> <<>>,
          list |-> GetAllDocuments(s.docs),
          notice |-> IF s.docs = {} THEN "No documents found in database" ELSE ""]
    [] cmd = "show <id>" ->
         [s |-> s, exit |-> IF \E r \in s.docs : r.rowid = arg THEN "ok" ELSE "fatal",
          embedded |-> FALSE, searched |-> FALSE, log |-> <<>>, list |-> <<>>, notice |-> ""]
    [] cmd = "stats" ->
         [s |-> s, exit |-> "ok", embedded |-> FALSE, searched |-> FALSE,
          log |-> <<>>, list |-> <<>>, notice |-> ""]
    [] cmd = "remove" ->
         LET r == RemoveDocument(s.docs, arg)
         IN  [s |-> [docs |-> r.rows, nextRowid |-> s.nextRowid],
              exit |-> IF r.err = "" THEN "ok" ELSE "fatal",
              embedded |-> FALSE, searched |-> FALSE, log |-> <<>>, list |-> <<>>, notice |-> ""]

\* InitDatabase of package db on a schema [documents, dim]: CREATE VIRTUAL
\* TABLE IF NOT EXISTS documents ... embedding float[embeddingSize].  It
\* has no statement for the config table.
InitDatabase(schema, embeddingSize) ==
  IF schema.documents THEN schema
  ELSE [documents |-> TRUE, dim |-> embeddingSize]

\* The config table is created by SaveConfig, which then inserts a row, and
\* no statement deletes from it: it exists when it has a row.
ConfigTableExists(rows) == rows # <<>>

\* One run of main: CreateDB, InitDatabase on a new database, the model
\* check, the command, SaveConfig.  On an existing database that no run
\* saved a config to, the config table does not exist and GetConfig fails:
\* log.Fatalf.
Invoke(cmd, arg) ==
  LET isNew == ~dbExists
      dim == IF isNew
             THEN InitDatabase([documents |-> FALSE, dim |-> tableDim],
                               EmbeddingDim).dim
             ELSE tableDim
      out == RunCommand(cmd, arg, [docs |-> docs, nextRowid |-> nextRowid],
                        fs, Model, dim)
      query == IF cmd = "search" THEN arg.query ELSE ""
      limit == IF cmd = "search" THEN arg.limit ELSE 0
      aborted(exit) == [cmd |-> cmd, exit |-> exit, embedded |-> FALSE,
                        searched |-> FALSE, log |-> <<>>,
                        list |-> <<>>, notice |-> "",
                        query |-> query, limit |-> limit]
  IN  /\ pc = "cli"
      /\ dbExists' = TRUE
      /\ tableDim' = dim
      /\ IF ~isNew /\ cmd \in GuardedCommands /\ config = <<>>
         THEN /\ last' = aborted("fatal")
              /\ UNCHANGED <<docs, nextRowid, config>>
         ELSE IF ModelMismatch(cmd, isNew, config, Model)
         THEN /\ last' = aborted("mismatch")
              /\ UNCHANGED <<docs, nextRowid, config>>
         ELSE /\ out.s.nextRowid <= MaxRowid + 1
              /\ out.exit = "ok" => Len(config) < MaxConfigRows
              /\ docs' = out.s.docs
              /\ nextRowid' = out.s.nextRowid
              /\ last' = [cmd |-> cmd, exit |-> out.exit, embedded |-> out.embedded,
                          searched |-> out.searched, log |-> out.log,
                          list |-> out.list, notice |-> out.notice,
                          query |-> query, limit |-> limit]
              /\ config' = IF out.exit = "ok"
                           THEN SaveConfig(config, "embedding_model", Model)
                           ELSE config
      /\ UNCHANGED <<worldVars, ctxVars, procs, poolVars>>

CmdAdd == \E arg \in AddArgLists : Invoke("add", arg)

\* The values of --limit tried: one result, and the default.
Limits == {1, 5}

CmdSearch ==
  \E q \in Queries, limit \in Limits :
     Invoke("search", [query |-> q, limit |-> limit])

CmdReindex == Invoke("reindex", <<>>)

CmdShow == Invoke("show", <<>>)

CmdShowId == \E id \in 1..MaxRowid : Invoke("show <id>", id)

CmdStats == Invoke("stats", <<>>)

CmdRemove == \E id \in 1..MaxRowid : Invoke("remove", id)

\* The user edits a text file between two invocations.
EditFile ==
  /\ pc = "cli"
  /\ \E p \in TextPaths, c \in {"v1", "v2"} :
        /\ fs[p] # c
        /\ fs' = [fs EXCEPT ![p] = c]
  /\ last' = NoInvocation
  /\ UNCHANGED <<storeVars, Model, uniqueEnforced, ctxVars, dbExists, config, procs, poolVars>>

\* The user names another embedding_model in config.json.
SetModel ==
  /\ pc = "cli"
  /\ \E m \in Models :
        /\ m # Model
        /\ Model' = m
  /\ last' = NoInvocation
  /\ UNCHANGED <<storeVars, fs, uniqueEnforced, ctxVars, dbExists, config, procs, poolVars>>

InitCLI ==
  /\ docs = {}
  /\ nextRowid = 1
  /\ tableDim = 0
  /\ fs = InitFs
  /\ Model = "nomic-embed-text"
  /\ uniqueEnforced = FALSE
  /\ cancelled = FALSE
  /\ atCancel = {}
  /\ dbExists = FALSE
  /\ config = <<>>
  /\ last = NoInvocation
  /\ procs = NoProcs
  /\ paths = <<>>
  /\ maxWorkers = 0
  /\ pc = "cli"
  /\ spawned = 0
  /\ sent = 0
  /\ pathChan = <<>>
  /\ pathClosed = FALSE
  /\ errChan = <<>>
  /\ errClosed = FALSE
  /\ idle = 0
  /\ exited = 0
  /\ inflight = <<>>
  /\ waiter = "none"
  /\ errors = <<>>
  /\ results = <<>>

NextCLI ==
  \/ CmdAdd
  \/ CmdSearch
  \/ CmdReindex
  \/ CmdShow
  \/ CmdShowId
  \/ CmdStats
  \/ CmdRemove
  \/ EditFile
  \/ SetModel

SpecCLI == InitCLI /\ [][NextCLI]_vars

\* ------------------------------------------------------------ the search
\* The reranker call of RerankDocuments and the fusion of several queries'
\* results, on top of the nearest-neighbour query defined with the store.

\* Longest list of query strings given to one search.
MaxQueries == 2

\* Largest limit given to a search of several queries.
MaxLimit == 2

SearchQueries == {"feline pets", "dogs", "huge"}

\* The paths a store searched may hold, in rowid order.
StoredPaths == <<"a.txt", "b.txt", "c.txt">>

\* The request RerankDocuments posts to the reranking service: the query,
\* the contents of the documents in their order, and top_n.
RerankRequest(query, documents, top) ==
  [query |-> query, top_n |-> top,
   documents |-> [k \in 1..Len(documents) |-> documents[k].content]]

NoRequest == [query |-> "", top_n |-> 0, documents |-> <<>>]

\* Mutant: every result is read at the first returned index.
RerankRepeatsFirst(documents, response) ==
  [k \in 1..Len(response) |-> documents[response[1] + 1]]

\* RerankDocuments given the answer of the reranking service: the document
\* at each returned (0-based) index, in the order returned.
RerankDocuments(documents, response) ==
  [k \in 1..Len(response) |-> documents[response[k] + 1]]

\* The answers a reranking service may give for n documents and top_n = top:
\* distinct indices of the documents, as many as asked for and available.
RerankAnswers(n, top) ==
  LET len == IF top < n THEN top ELSE n
  IN  {a \in [1..len -> 0..(n - 1)] : \A i, j \in 1..len : i # j => a[i] # a[j]}

RECURSIVE Concat(_)
Concat(sets) == IF sets = <<>> THEN <<>> ELSE Head(sets) \o Concat(Tail(sets))

\* The places of the first occurrence of each path.
FirstOccurrences(list) ==
  SelectSeq([k \in 1..Len(list) |-> k],
            LAMBDA k : ~\E j \in 1..(k - 1) : list[j].path = list[k].path)

\* Mutant: the first occurrence of a path is kept as it is.
DedupKeepFirst(list) ==
  LET at == FirstOccurrences(list)
  IN  [i \in 1..Len(at) |-> list[at[i]]]

\* Deduplicate by path: one entry per path, at the place of its first
\* occurrence, with the smallest distance any occurrence has.
Dedup(list) ==
  LET at == FirstOccurrences(list)
      least(path) ==
        CHOOSE d \in {list[j].distance : j \in {i \in 1..Len(list) : list[i].path = path}} :
           \A j \in 1..Len(list) : list[j].path = path => d <= list[j].distance
  IN  [i \in 1..Len(at) |->
         [list[at[i]] EXCEPT !.distance = least(list[at[i]].path)]]

\* Mutant: the list is left in the order of the per-query result sets.
LeaveUnsorted(list) == list

\* Ascending by distance, stable.
RECURSIVE SortByDistance(_)
SortByDistance(list) ==
  IF list = <<>> THEN <<>>
  ELSE LET k == CHOOSE i \in 1..Len(list) :
                  /\ \A j \in 1..Len(list) : list[i].distance <= list[j].distance
                  /\ \A j \in 1..(i - 1) : list[j].distance # list[i].distance
           rest == [j \in 1..(Len(list) - 1) |->
                      IF j < k THEN list[j] ELSE list[j + 1]]
       IN  <<list[k]>> \o SortByDistance(rest)

NoThreshold == [set |-> FALSE, max |-> 0]

\* Mutant: the threshold is ignored.
KeepAll(list, threshold) == list

FilterAndSort(list, threshold) ==
  IF threshold.set
  THEN SortByDistance(SelectSeq(list, LAMBDA r : r.distance <= threshold.max))
  ELSE list

\* Drop every result whose distance exceeds the threshold, if one is given.
ThresholdFilter(list, threshold) ==
  IF threshold.set
  THEN SelectSeq(list, LAMBDA r : r.distance <= threshold.max)
  ELSE list

\* The per-query result sets of a search, concatenated and deduplicated:
\* each query is embedded and asked for its limit nearest documents; one
\* embedding that fails fails the search.
Fused(rows, model, queries, limit) ==
  LET embeds == [k \in 1..Len(queries) |-> CreateEmbedding(FALSE, model, queries[k])]
      sets == [k \in 1..Len(queries) |-> Nearest(rows, embeds[k].vec, limit)]
  IN  IF \E k \in 1..Len(queries) : embeds[k].err # ""
      THEN [err |-> "failed to create query embedding", sets |-> <<>>, list |-> <<>>]
      ELSE [err |-> "", sets |-> sets, list |-> Dedup(Concat(sets))]

\* search(queries, limit, threshold, rerank): fuse, then either the
\* reranker's order (response is the service's answer; a failed call fails
\* the search) or ascending distance, then the threshold.
Search(rows, model, queries, limit, threshold, rerank, response) ==
  LET fused == Fused(rows, model, queries, limit)
      ordered == IF rerank
                 THEN RerankDocuments(fused.list, response.order)
                 ELSE SortByDistance(fused.list)
      request == IF rerank /\ fused.err = ""
                 THEN RerankRequest(Head(queries), fused.list, limit)
                 ELSE NoRequest
  IN  IF fused.err # "" THEN [err |-> fused.err, list |-> <<>>, request |-> request]
      ELSE IF rerank /\ ~response.ok
      THEN [err |-> "failed to rerank", list |-> <<>>, request |-> request]
      ELSE [err |-> "", list |-> ThresholdFilter(ordered, threshold),
            request |-> request]

QueryLists == SeqsUpTo(SearchQueries, MaxQueries) \ {<<>>}

Thresholds == {NoThreshold} \cup {[set |-> TRUE, max |-> t] : t \in 1..3}

NoAnswer == [ok |-> TRUE, order |-> <<>>]

\* What the reranking service may answer to this search, if it is asked.
Responses(rows, model, queries, limit, rerank) ==
  LET fused == Fused(rows, model, queries, limit)
  IN  IF rerank /\ fused.err = ""
      THEN {[ok |-> TRUE, order |-> a] : a \in RerankAnswers(Len(fused.list), limit)}
           \cup {[ok |-> FALSE, order |-> <<>>]}
      ELSE {NoAnswer}

\* One search; last records the call and what it returned.
SearchCall ==
  /\ pc = "search"
  /\ \E queries \in QueryLists, limit \in 1..MaxLimit,
        threshold \in Thresholds, rerank \in BOOLEAN :
        \E response \in Responses(docs, Model, queries, limit, rerank) :
           LET out == Search(docs, Model, queries, limit, threshold, rerank, response)
           IN  last' = [cmd |-> "search", queries |-> queries, limit |-> limit,
                        threshold |-> threshold, rerank |-> rerank,
                        response |-> response, request |-> out.request,
                        err |-> out.err, list |-> out.list]
  /\ pc' = "searched"
  /\ UNCHANGED <<storeVars, worldVars, ctxVars, dbExists, config, procs, paths,
                 maxWorkers, spawned, sent, pathChan, pathClosed, errChan,
                 errClosed, idle, exited, inflight, waiter, errors, results>>

\* The caller is done with the results; the next search may start.
SearchAgain ==
  /\ pc = "searched"
  /\ pc' = "search"
  /\ last' = NoInvocation
  /\ UNCHANGED <<storeVars, worldVars, ctxVars, dbExists, config, procs, paths,
                 maxWorkers, spawned, sent, pathChan, pathClosed, errChan,
                 errClosed, idle, exited, inflight, waiter, errors, results>>

\* A store of up to three documents, each embedded with the configured
\* model, ready to be searched.
InitSearch ==
  /\ \E contentOf \in [1..Len(StoredPaths) -> Contents \cup {"absent"}] :
        docs = {[rowid |-> k, filepath |-> StoredPaths[k], content |-> contentOf[k],
                 title |-> StoredPaths[k],
                 embedding |-> [model |-> "nomic-embed-text", text |-> contentOf[k]]] :
                k \in {i \in 1..Len(StoredPaths) : contentOf[i] # "absent"}}
  /\ nextRowid = Len(StoredPaths) + 1
  /\ tableDim = EmbeddingDim
  /\ fs = InitFs
  /\ Model = "nomic-embed-text"
  /\ uniqueEnforced = FALSE
  /\ cancelled = FALSE
  /\ atCancel = {}
  /\ dbExists = TRUE
  /\ config = <<[key |-> "embedding_model", value |-> "nomic-embed-text"]>>
  /\ last = NoInvocation
  /\ procs = NoProcs
  /\ paths = <<>>
  /\ maxWorkers = 0
  /\ pc = "search"
  /\ spawned = 0
  /\ sent = 0
  /\ pathChan = <<>>
  /\ pathClosed = FALSE
  /\ errChan = <<>>
  /\ errClosed = FALSE
  /\ idle = 0
  /\ exited = 0
  /\ inflight = <<>>
  /\ waiter = "none"
  /\ errors = <<>>
  /\ results = <<>>

NextSearch == SearchCall \/ SearchAgain

SpecSearch == InitSearch /\ [][NextSearch]_vars

\* ------------------------------------------------- one call of AddDocument
\* fileutil.AddDocument called on one path after another, on every kind of
\* path and on a store that may already hold the path.

AddOne ==
  /\ pc = "add"
  /\ \E path \in FilePaths :
        LET a == fileutil_AddDocument([docs |-> docs, nextRowid |-> nextRowid],
                                      fs, FALSE, Model, tableDim, path)
            had == \E r \in docs : r.filepath = path
        IN  /\ a.s.nextRowid <= MaxRowid + 1
            /\ docs' = a.s.docs
            /\ nextRowid' = a.s.nextRowid
            /\ last' = [NoInvocation EXCEPT
                          !.cmd = "AddDocument",
                          !.exit = IF a.err = "" THEN "ok" ELSE "error",
                          !.embedded = a.embedded,
                          !.log = <<[path |-> path, err |-> a.err,
                                     embedded |-> a.embedded,
                                     stored |-> a.stored, replaced |-> had]>>]
  /\ pc' = "added"
  /\ UNCHANGED <<tableDim, worldVars, ctxVars, dbExists, config, procs, paths,
                 maxWorkers, spawned, sent, pathChan, pathClosed, errChan,
                 errClosed, idle, exited, inflight, waiter, errors, results>>

\* The caller has the return value; it may call again.
AddAgain ==
  /\ pc = "added"
  /\ pc' = "add"
  /\ last' = NoInvocation
  /\ UNCHANGED <<storeVars, worldVars, ctxVars, dbExists, config, procs, paths,
                 maxWorkers, spawned, sent, pathChan, pathClosed, errChan,
                 errClosed, idle, exited, inflight, waiter, errors, results>>

\* A store of 768-long vectors that holds a.txt or nothing, any configured
\* model, any content of the text files.
InitAdd ==
  /\ \E stored \in {{}, {"a.txt"}} :
        /\ docs = {OldRow(1, p, "nomic-embed-text") : p \in stored}
        /\ nextRowid = Cardinality(stored) + 1
  /\ tableDim = EmbeddingDim
  /\ \E ca, cb \in Contents :
        fs = [InitFs EXCEPT !["a.txt"] = ca, !["b.txt"] = cb]
  /\ Model \in Models
  /\ uniqueEnforced = FALSE
  /\ cancelled = FALSE
  /\ atCancel = {}
  /\ dbExists = TRUE
  /\ config = <<[key |-> "embedding_model", value |-> "nomic-embed-text"]>>
  /\ last = NoInvocation
  /\ procs = NoProcs
  /\ paths = <<>>
  /\ maxWorkers = 0
  /\ pc = "add"
  /\ spawned = 0
  /\ sent = 0
  /\ pathChan = <<>>
  /\ pathClosed = FALSE
  /\ errChan = <<>>
  /\ errClosed = FALSE
  /\ idle = 0
  /\ exited = 0
  /\ inflight = <<>>
  /\ waiter = "none"
  /\ errors = <<>>
  /\ results = <<>>

NextAdd == AddOne \/ AddAgain

SpecAdd == InitAdd /\ [][NextAdd]_vars

\* ------------------------------------------------ one call of InitDatabase
\* InitDatabase called with either embedding size on a database file that is
\* new or was initialised, filled and configured by earlier runs.

EmbeddingSizes == {768, 1024}

ModelOfSize(size) == IF size = 1024 THEN "mxbai-embed-large" ELSE "nomic-embed-text"

InitDatabaseCall ==
  /\ pc = "init"
  /\ \E size \in EmbeddingSizes :
        LET schema == InitDatabase([documents |-> dbExists, dim |-> tableDim], size)
        IN  /\ dbExists' = schema.documents
            /\ tableDim' = schema.dim
            /\ last' = [NoInvocation EXCEPT !.cmd = "InitDatabase",
                                             !.exit = "ok", !.limit = size]
  /\ pc' = "inited"
  /\ UNCHANGED <<docs, nextRowid, config, procs, worldVars, ctxVars, paths,
                 maxWorkers, spawned, sent, pathChan, pathClosed, errChan,
                 errClosed, idle, exited, inflight, waiter, errors, results>>

\* main goes on; a later run may call InitDatabase again.
InitDatabaseAgain ==
  /\ pc = "inited"
  /\ pc' = "init"
  /\ last' = NoInvocation
  /\ UNCHANGED <<storeVars, worldVars, ctxVars, dbExists, config, procs, paths,
                 maxWorkers, spawned, sent, pathChan, pathClosed, errChan,
                 errClosed, idle, exited, inflight, waiter, errors, results>>

InitInit ==
  /\ \/ /\ dbExists = FALSE
        /\ tableDim = 0
        /\ docs = {}
        /\ nextRowid = 1
        /\ config = <<>>
        /\ Model \in Models
     \/ /\ dbExists = TRUE
        /\ tableDim \in EmbeddingSizes
        /\ \E stored \in SUBSET TextPaths :
              /\ docs = {OldRow(IF p = "a.txt" THEN 1 ELSE 2, p, ModelOfSize(tableDim)) :
                         p \in stored}
              /\ nextRowid = 3
        /\ config \in {SaveConfig(c, "embedding_model", ModelOfSize(tableDim)) :
                        c \in SeqsUpTo({[key |-> "embedding_model", value |-> m] :
                                        m \in Models}, 1)}
                       \cup {<<>>}
        /\ config = <<>> => docs = {}
        /\ Model \in Models
  /\ fs = InitFs
  /\ uniqueEnforced = FALSE
  /\ cancelled = FALSE
  /\ atCancel = {}
  /\ last = NoInvocation
  /\ procs = NoProcs
  /\ paths = <<>>
  /\ maxWorkers = 0
  /\ pc = "init"
  /\ spawned = 0
  /\ sent = 0
  /\ pathChan = <<>>
  /\ pathClosed = FALSE
  /\ errChan = <<>>
  /\ errClosed = FALSE
  /\ idle = 0
  /\ exited = 0
  /\ inflight = <<>>
  /\ waiter = "none"
  /\ errors = <<>>
  /\ results = <<>>

NextInit == InitDatabaseCall \/ InitDatabaseAgain

SpecInit == InitInit /\ [][NextInit]_vars

\* ------------------------------------- two invocations on one database

\* Two refer processes, one running add and one running reindex, started on
\* the same database file.  Each process is main from CreateDB to
\* SaveConfig; SQLite runs one statement at a time, so the processes
\* interleave between the statements of fileutil.AddDocument.  main takes
\* no lock and opens the database with no transaction around a command.

\* The argument lists given to the add process.
SideArgLists == {<<"a.txt">>, <<"b.txt">>}

\* The item is finished: the loop goes to the next path, or to SaveConfig.
NextItem(proc) ==
  [at |-> IF Tail(proc.todo) = <<>> THEN "save" ELSE "prepare",
   todo |-> Tail(proc.todo)]

\* main of the add process up to the first AddDocument: CreateDB, the model
\* check, WalkDir.
AddStart ==
  /\ pc = "side"
  /\ procs["add"].at = "start"
  /\ \E arg \in SideArgLists :
        procs' = [procs EXCEPT !["add"] =
                    IF ModelMismatch("add", FALSE, config, Model)
                    THEN [at |-> "done", todo |-> <<>>]
                    ELSE [at |-> "prepare", todo |-> WalkAll(arg)]]
  /\ UNCHANGED <<storeVars, worldVars, ctxVars, dbExists, config, last, poolVars>>

\* main of the reindex process up to the first AddDocument: CreateDB (no
\* model check for reindex), GetAllDocuments.
ReindexStart ==
  /\ pc = "side"
  /\ procs["reindex"].at = "start"
  /\ LET todo == PathsByRowid(docs)
     IN  procs' = [procs EXCEPT !["reindex"] =
                     [at |-> IF todo = <<>> THEN "save" ELSE "prepare",
                      todo |-> todo]]
  /\ UNCHANGED <<storeVars, worldVars, ctxVars, dbExists, config, last, poolVars>>

\* fileutil.AddDocument up to SELECT EXISTS: stat, IsTextFile, ReadFile,
\* CreateEmbedding, then the query whose answer decides on the DELETE.
ProcPrepare(i) ==
  /\ pc = "side"
  /\ procs[i].at = "prepare"
  /\ LET path == Head(procs[i].todo)
         e == CreateEmbedding(FALSE, Model, fs[path])
         exists == \E r \in docs : r.filepath = path
     IN  procs' = [procs EXCEPT ![i] =
                     IF \/ StatKind(path) # "file"
                        \/ ~isTextFile(fs, path)
                        \/ ReadFails(path, 2)
                        \/ e.err # ""
                     THEN NextItem(procs[i])
                     ELSE [at |-> IF exists THEN "delete" ELSE "insert",
                           todo |-> procs[i].todo]]
  /\ UNCHANGED <<storeVars, worldVars, ctxVars, dbExists, config, last, poolVars>>

\* DELETE FROM documents WHERE filepath = ?
ProcDelete(i) ==
  /\ pc = "side"
  /\ procs[i].at = "delete"
  /\ docs' = DeleteByPath(docs, Head(procs[i].todo))
  /\ procs' = [procs EXCEPT ![i].at = "insert"]
  /\ UNCHANGED <<nextRowid, tableDim, worldVars, ctxVars, dbExists, config, last,
                 poolVars>>

\* INSERT INTO documents ...; a vector of another length is rejected and
\* main logs the error and goes on.
ProcInsert(i) ==
  /\ pc = "side"
  /\ procs[i].at = "insert"
  /\ LET path == Head(procs[i].todo)
         e == CreateEmbedding(FALSE, Model, fs[path])
         row == [rowid |-> nextRowid, filepath |-> path, content |-> fs[path],
                 title |-> path, embedding |-> e.vec]
     IN  IF VecLen(e.vec) # tableDim
         THEN UNCHANGED <<docs, nextRowid>>
         ELSE /\ nextRowid <= MaxRowid
              /\ docs' = docs \cup {row}
              /\ nextRowid' = nextRowid + 1
  /\ procs' = [procs EXCEPT ![i] = NextItem(procs[i])]
  /\ UNCHANGED <<tableDim, worldVars, ctxVars, dbExists, config, last, poolVars>>

\* SaveConfig at the end of main.
ProcSave(i) ==
  /\ pc = "side"
  /\ procs[i].at = "save"
  /\ Len(config) < MaxConfigRows
  /\ config' = SaveConfig(config, "embedding_model", Model)
  /\ procs' = [procs EXCEPT ![i].at = "done"]
  /\ UNCHANGED <<storeVars, worldVars, ctxVars, dbExists, last, poolVars>>

\* An existing database made with nomic-embed-text, holding a.txt or
\* nothing; the configured model may have been changed since.
InitSide ==
  /\ docs \in {{}, {OldRow(1, "a.txt", "nomic-embed-text")}}
  /\ nextRowid = 2
  /\ tableDim = EmbeddingDim
  /\ fs = InitFs
  /\ Model \in Models
  /\ uniqueEnforced = FALSE
  /\ cancelled = FALSE
  /\ atCancel = {}
  /\ dbExists = TRUE
  /\ config = <<[key |-> "embedding_model", value |-> "nomic-embed-text"]>>
  /\ last = NoInvocation
  /\ procs = NoProcs
  /\ paths = <<>>
  /\ maxWorkers = 0
  /\ pc = "side"
  /\ spawned = 0
  /\ sent = 0
  /\ pathChan = <<>>
  /\ pathClosed = FALSE
  /\ errChan = <<>>
  /\ errClosed = FALSE
  /\ idle = 0
  /\ exited = 0
  /\ inflight = <<>>
  /\ waiter = "none"
  /\ errors = <<>>
  /\ results = <<>>

NextSide ==
  \/ AddStart
  \/ ReindexStart
  \/ \E i \in Invocations : ProcPrepare(i)
  \/ \E i \in Invocations : ProcDelete(i)
  \/ \E i \in Invocations : ProcInsert(i)
  \/ \E i \in Invocations : ProcSave(i)

SpecSide == InitSide /\ [][NextSide]_vars

\* ------------------------------------------------ one call of RemoveDocument

\* The stores RemoveDocument is called on: rows made by earlier adds, no
\* two with the same rowid or the same path.
StoredRowSets ==
  {rows \in SUBSET {OldRow(id, p, "nomic-embed-text") :
                      id \in 1..MaxRowid, p \in TextPaths} :
     \A r, q \in rows : (r.rowid = q.rowid \/ r.filepath = q.filepath) => r = q}

\* RemoveDocument(db, id) called once; what it returned is kept in last.
RemoveCall ==
  /\ pc = "remove"
  /\ \E id \in 1..MaxRowid :
        LET r == RemoveDocument(docs, id)
        IN  /\ docs' = r.rows
            /\ last' = [cmd |-> "RemoveDocument", id |-> id, err |-> r.err,
                        exit |-> IF r.err = "" THEN "ok" ELSE "error"]
  /\ pc' = "removed"
  /\ UNCHANGED <<nextRowid, tableDim, worldVars, ctxVars, dbExists, config, procs,
                 paths, maxWorkers, spawned, sent, pathChan, pathClosed, errChan,
                 errClosed, idle, exited, inflight, waiter, errors, results>>

\* The caller has the return value; it may call again.
RemoveAgain ==
  /\ pc = "removed"
  /\ pc' = "remove"
  /\ last' = NoInvocation
  /\ UNCHANGED <<storeVars, worldVars, ctxVars, dbExists, config, procs, paths,
                 maxWorkers, spawned, sent, pathChan, pathClosed, errChan,
                 errClosed, idle, exited, inflight, waiter, errors, results>>

InitRemove ==
  /\ docs \in StoredRowSets
  /\ nextRowid = MaxRowid + 1
  /\ tableDim = EmbeddingDim
  /\ fs = InitFs
  /\ Model \in Models
  /\ uniqueEnforced = FALSE
  /\ cancelled = FALSE
  /\ atCancel = {}
  /\ dbExists = TRUE
  /\ config = <<[key |-> "embedding_model", value |-> "nomic-embed-text"]>>
  /\ last = NoInvocation
  /\ procs = NoProcs
  /\ paths = <<>>
  /\ maxWorkers = 0
  /\ pc = "remove"
  /\ spawned = 0
  /\ sent = 0
  /\ pathChan = <<>>
  /\ pathClosed = FALSE
  /\ errChan = <<>>
  /\ errClosed = FALSE
  /\ idle = 0
  /\ exited = 0
  /\ inflight = <<>>
  /\ waiter = "none"
  /\ errors = <<>>
  /\ results = <<>>

NextRemove == RemoveCall \/ RemoveAgain

SpecRemove == InitRemove /\ [][NextRemove]_vars

\* ================================================================== claims

RowsOf(path) == {r \in docs : r.filepath = path}

DistinctPaths == \A i, j \in Items : i # j => paths[i] # paths[j]

Returned == pc = "returned"

\* AddDocument on this path alone, in this world, fails (at the fetch, the
\* embedding or the insert).
FailsAlone(path) ==
  AddDocument([docs |-> {}, nextRowid |-> 1], fs, FALSE, Model, tableDim,
              uniqueEnforced, path).err # ""

Succeeded(i) == results[i] = <<"ok">>

\* ---- C2
\* C2: for a batch of pairwise-distinct paths, whatever the interleaving and
\* the worker count, when AddDocuments returns the store holds at most one row
\* per path and exactly one row for every path whose AddDocument succeeded.
C2_OneRowPerPath ==
  (Returned /\ DistinctPaths) =>
     /\ \A p \in Paths : Cardinality(RowsOf(p)) <= 1
     /\ \A i \in Items : Succeeded(i) => Cardinality(RowsOf(paths[i])) = 1

\* Two distinct paths went through two workers, one replacing a stored row.
C2_Witness ==
  /\ Returned
  /\ maxWorkers = 2
  /\ paths = <<"a.txt", "b.txt">>
  /\ Succeeded(1) /\ Succeeded(2)
  /\ \E r \in RowsOf("a.txt") : r.rowid > 1
  /\ Cardinality(docs) = 2

C4_PoolDrains ==
  Returned =>
     /\ \A i \in Items : Len(results[i]) = 1
     /\ inflight = <<>> /\ idle = 0 /\ exited = NumWorkers(maxWorkers)
     /\ pathChan = <<>> /\ errChan = <<>>
     /\ \A i \in Items :
          ~FailsAlone(paths[i]) =>
             \E r \in docs : /\ r.filepath = paths[i]
                             /\ r.content = fs[paths[i]]
                             /\ r.embedding.model = Model

\* One worker met a failing item first and still committed the next one.
C4_Witness ==
  /\ Returned
  /\ maxWorkers = 1
  /\ paths = <<"gone.txt", "b.txt">>
  /\ Len(errors) = 1
  /\ RowsOf("b.txt") # {}

\* ---- C5
\* C5: AddDocuments always terminates.  For every batch (the empty one
\* included) and every maxWorkers (0, and values above the batch length,
\* included), under fair scheduling of the goroutines, AddDocuments
\* eventually returns.
C5_Terminates == <>(pc = "returned")

\* The empty batch with the default worker count: ten workers started, found
\* the closed channel and left, and the call returned.
C5_Witness ==
  /\ Returned
  /\ paths = <<>>
  /\ maxWorkers = 0
  /\ exited = maxParallelEmbeddingRequests

\* ---- C6
IsSkip(path) ==
  \/ StatKind(path) = "dir"
  \/ StatKind(path) = "file" /\ ~isTextFile(fs, path)

\* C6: a path that is a directory or a binary file is skipped silently:
\* when AddDocuments returns, nothing is stored for it and the error list
\* has no entry for it.
C6_SkipsAreNotErrors ==
  Returned =>
     \A i \in Items :
        IsSkip(paths[i]) =>
           /\ RowsOf(paths[i]) = {}
           /\ \A k \in 1..Len(errors) : errors[k].path # paths[i]

\* ---- C7
\* C7: once the context is cancelled, no path still waiting in pathChan is
\* taken out and fetched, no embedding call succeeds, no row is inserted for
\* a path that was still queued, and when AddDocuments returns every path
\* stored at the moment of cancellation is still stored.
C7_CancelStopsQueuedWork ==
  [][cancelled =>
        /\ \A k \in 1..Len(pathChan) :
              /\ k <= Len(pathChan') /\ pathChan'[k] = pathChan[k]
              /\ pathChan[k] \notin DOMAIN inflight'
        /\ \A i \in DOMAIN inflight :
              inflight[i].at = "embed" =>
                 (i \notin DOMAIN inflight' \/ inflight'[i].at = "embed")
        /\ (pc' = "returned") => (atCancel \subseteq {r.filepath : r \in docs'})
    ]_vars

\* ---- C1
\* C1: upsert by path is idempotent.  Whatever the store, when an "add"
\* runs AddDocument on a path and the run succeeds in storing it (also when
\* the path was stored by an earlier run, or earlier in the same run), the
\* store then holds exactly one document with that path, with the content
\* the run fetched, and every document whose path the run was not given is
\* as it was.
C1_UpsertIdempotent ==
  [][last'.cmd = "add" =>
        LET log == last'.log
            given == {log[k].path : k \in 1..Len(log)}
        IN  /\ \A k \in 1..Len(log) :
                  log[k].stored =>
                     /\ Cardinality({r \in docs' : r.filepath = log[k].path}) = 1
                     /\ \A r \in docs' :
                           r.filepath = log[k].path => r.content = fs[log[k].path]
            /\ {r \in docs : r.filepath \notin given}
                  = {r \in docs' : r.filepath \notin given}
    ]_vars

\* "add a.txt" stored a.txt again, after it was edited, next to b.txt.
C1_Witness ==
  /\ last.cmd = "add"
  /\ last.log = <<[path |-> "a.txt", err |-> "", embedded |-> TRUE,
                    stored |-> TRUE, replaced |-> TRUE]>>
  /\ fs["a.txt"] = "v2"
  /\ \E r \in RowsOf("a.txt") : r.content = "v2"
  /\ RowsOf("b.txt") # {}

\* ---- C8
StoredModelDiffers ==
  dbExists /\ config # <<>> /\ ConfigValue(config, "embedding_model") # Model

\* C8: when add or search runs on an existing store whose saved
\* embedding_model is not the configured model, the run aborts before any
\* embedding, insert, delete or search, and leaves the documents and the
\* config as they were; reindex is not checked and goes through.
C8_ModelMismatchGuard ==
  [][StoredModelDiffers =>
        /\ last'.cmd \in {"add", "search"} =>
              /\ last'.exit = "mismatch"
              /\ ~last'.embedded /\ ~last'.searched /\ last'.log = <<>>
              /\ docs' = docs /\ nextRowid' = nextRowid /\ config' = config
        /\ last'.cmd = "reindex" =>
              /\ last'.exit = "ok"
              /\ ConfigValue(config', "embedding_model") = Model
    ]_vars

\* A search on a store with documents was refused for the model.
C8_Witness ==
  /\ last.cmd = "search"
  /\ last.exit = "mismatch"
  /\ docs # {}
  /\ StoredModelDiffers

\* ---- C9
\* C9: after any sequence of invocations, with the configured model changed
\* between them at will, a search that reaches the nearest-neighbour query
\* runs on a store in which every document was embedded with the configured
\* model.
C9_NoStaleVectorsSearched ==
  (last.cmd = "search" /\ last.searched) =>
     \A d \in docs : d.embedding.model = Model

\* ---- C10
\* strconv.Atoi of a config value; a missing value does not parse.
ParseSize(value) ==
  CASE value = "768" -> 768
    [] value = "1024" -> 1024
    [] OTHER -> -1

\* C10: in every reachable state of the store, the saved config's
\* embedding_size is the vector length of every stored document (the
\* dimension the documents table was created with).
C10_DimensionInvariant ==
  \A d \in docs :
     /\ ParseSize(ConfigValue(config, "embedding_size")) = VecLen(d.embedding)
     /\ VecLen(d.embedding) = tableDim

\* ---- C11
\* Some step of the run failed: the run ended in log.Fatalf, or AddDocument
\* returned an error for one of the documents.
SomeStepFailed(rec) ==
  \/ rec.exit = "fatal"
  \/ \E k \in 1..Len(rec.log) : rec.log[k].err # ""

\* C11: a reindex of which any step fails leaves the store as it was before
\* the reindex started: the same documents and vectors, the same table
\* dimension, the same config.
C11_ReindexAtomic ==
  [][(last'.cmd = "reindex" /\ SomeStepFailed(last')) =>
        /\ docs' = docs
        /\ tableDim' = tableDim
        /\ config' = config
    ]_vars

\* ---- C12
\* The configured model, or its dimension, is not the one the store was
\* built with.
ModelOrDimensionChanged ==
  \/ StoredModelDiffers
  \/ dbExists /\ ModelDim(Model) # tableDim

\* C12: a reindex under a changed model or dimension rebuilds everything.
\* Every stored document is fetched again from its path and embedded with
\* the configured model; the reindex itself does not fail; a document whose
\* fetch fails is not in the store afterwards; a document whose fetch and
\* embedding succeed is in the store afterwards with a vector of the
\* configured model and its dimension.
C12_ReindexFullRebuild ==
  [][(last'.cmd = "reindex" /\ ModelOrDimensionChanged) =>
        /\ last'.exit = "ok"
        /\ \A d \in docs :
              LET f == FetchDocument(fs, d.filepath)
                  e == CreateEmbedding(FALSE, Model, f.doc.Content)
              IN  /\ \E k \in 1..Len(last'.log) : last'.log[k].path = d.filepath
                  /\ f.err # "" => ~\E r \in docs' : r.filepath = d.filepath
                  /\ (f.err = "" /\ e.err = "") =>
                        \E r \in docs' :
                           /\ r.filepath = d.filepath
                           /\ r.embedding.model = Model
                           /\ VecLen(r.embedding) = ModelDim(Model)
                           /\ tableDim' = ModelDim(Model)
    ]_vars

\* ---- C13
\* C13: a reindex under an unchanged model and dimension makes no embedding
\* call for a stored document whose file still has the stored content, and
\* leaves its stored embedding as it was; the documents whose content
\* differs are embedded again.
C13_ReindexKeepsUnchanged ==
  [][(last'.cmd = "reindex" /\ dbExists /\ ~ModelOrDimensionChanged) =>
        \A d \in docs :
           LET entries == {k \in 1..Len(last'.log) : last'.log[k].path = d.filepath}
           IN  IF d.content = fs[d.filepath]
               THEN /\ \A k \in entries : ~last'.log[k].embedded
                    /\ \E r \in docs' : /\ r.filepath = d.filepath
                                         /\ r.embedding = d.embedding
               ELSE \E k \in entries : last'.log[k].embedded
    ]_vars

\* ---- C14
SearchReturned == last.cmd = "search" /\ last.err = ""

PerQuerySets == Fused(docs, Model, last.queries, last.limit).sets

\* C14: in the result of a search of any list of queries every document
\* path appears at most once, and the distance reported with it is the
\* smallest of its distances over the per-query result sets in which it
\* appeared; without threshold and rerank no path of a per-query set is lost.
C14_FusionKeepsMinimum ==
  SearchReturned =>
     LET all == Concat(PerQuerySets)
     IN  /\ \A i, j \in 1..Len(last.list) :
               last.list[i].path = last.list[j].path => i = j
         /\ \A i \in 1..Len(last.list) :
               /\ \E k \in 1..Len(all) : /\ all[k].path = last.list[i].path
                                          /\ all[k].distance = last.list[i].distance
               /\ \A k \in 1..Len(all) :
                     all[k].path = last.list[i].path =>
                        last.list[i].distance <= all[k].distance
         /\ (~last.rerank /\ ~last.threshold.set) =>
               \A k \in 1..Len(all) :
                  \E i \in 1..Len(last.list) : last.list[i].path = all[k].path

\* Two queries found the same document at different distances, the first
\* the farther one, and the document is in the result.
C14_Witness ==
  /\ SearchReturned
  /\ Len(last.queries) = 2
  /\ \E i \in 1..Len(last.list) :
        \E k \in 1..Len(PerQuerySets[1]), m \in 1..Len(PerQuerySets[2]) :
           /\ PerQuerySets[1][k].path = last.list[i].path
           /\ PerQuerySets[2][m].path = last.list[i].path
           /\ PerQuerySets[2][m].distance < PerQuerySets[1][k].distance

\* ---- C15
\* C15: when a search is given a maximum distance, every result it returns
\* is within that distance, with rerank and without.
C15_ThresholdBound ==
  (SearchReturned /\ last.threshold.set) =>
     \A i \in 1..Len(last.list) : last.list[i].distance <= last.threshold.max

\* A reranked search whose threshold dropped a document the reranker had
\* returned, and kept another.
C15_Witness ==
  /\ SearchReturned
  /\ last.threshold.set
  /\ last.rerank
  /\ last.list # <<>>
  /\ Len(last.list) < Len(last.response.order)

\* ---- C16
Position(list, path) == CHOOSE k \in 1..Len(list) : list[k].path = path

\* a is made of results of b, in the order they have in b.
InSameOrder(a, b) ==
  /\ \A i \in 1..Len(a) : \E k \in 1..Len(b) : b[k] = a[i]
  /\ \A i, j \in 1..Len(a) :
        i < j => Position(b, a[i].path) < Position(b, a[j].path)

WithoutThreshold ==
  Search(docs, Model, last.queries, last.limit, NoThreshold, last.rerank,
         last.response).list

\* C16: the same search of the same store without the threshold returns
\* every result the search with the threshold returns, and the common
\* results are in the same relative order in both, with rerank and without.
C16_ThresholdMonotone ==
  SearchReturned => InSameOrder(last.list, WithoutThreshold)

\* A threshold that removed a result and left at least two.
C16_Witness ==
  /\ SearchReturned
  /\ last.threshold.set
  /\ Len(last.list) >= 2
  /\ Len(last.list) < Len(WithoutThreshold)

\* ---- C17
FusedList == Fused(docs, Model, last.queries, last.limit).list

\* C17: without rerank the result of a search of any number of queries is
\* in non-decreasing order of distance; with rerank it is in the order the
\* reranker returned.
C17_FinalOrdering ==
  SearchReturned =>
     IF last.rerank
     THEN InSameOrder(last.list, RerankDocuments(FusedList, last.response.order))
     ELSE \A i, j \in 1..Len(last.list) :
             i < j => last.list[i].distance <= last.list[j].distance

\* Two queries whose concatenated result sets are not in order of distance.
C17_Witness ==
  /\ SearchReturned
  /\ ~last.rerank
  /\ Len(last.queries) = 2
  /\ Len(last.list) >= 2
  /\ \E i, j \in 1..Len(FusedList) :
        i < j /\ FusedList[j].distance < FusedList[i].distance
  /\ \E i, j \in 1..Len(last.list) : last.list[i].distance < last.list[j].distance

OneFileAdded ==
  /\ last.cmd = "add" /\ last.exit = "ok"
  /\ Cardinality(docs) = 1
  /\ nextRowid = 2
  /\ Len(config) = 1

\* C20: on an empty store, add of one text file that the service embeds
\* stores it; a search with limit 1 that then succeeds prints exactly one
\* result, with the path and the id of that file; remove of the id printed
\* leaves no document; show then lists none.
C20_EndToEnd ==
  [][/\ (last'.cmd = "add" /\ ~dbExists /\ Len(last'.log) = 1
         /\ last'.log[1].embedded /\ last'.log[1].err = "") =>
           /\ Cardinality(docs') = 1
           /\ \A d \in docs' : d.filepath = last'.log[1].path
     /\ (OneFileAdded /\ last'.cmd = "search" /\ last'.exit = "ok"
         /\ last'.limit = 1) =>
           /\ Len(last'.list) = 1
           /\ \A d \in docs : /\ last'.list[1].path = d.filepath
                               /\ last'.list[1].rowid = d.rowid
           /\ docs' = docs
     /\ (last.cmd = "search" /\ Len(last.list) = 1 /\ Cardinality(docs) = 1
         /\ last'.cmd = "remove" /\ last'.exit = "ok") =>
           docs' = {}
     /\ (last.cmd = "remove" /\ last.exit = "ok" /\ docs = {}
         /\ last'.cmd = "show") =>
           /\ last'.list = <<>>
           /\ last'.notice = "No documents found in database"
           /\ last'.exit = "early"
    ]_vars

\* show after add, search and remove, each of which saved the config: the
\* one document ever stored is gone and show lists nothing.
C20_Witness ==
  /\ last.cmd = "show"
  /\ last.exit = "early"
  /\ last.list = <<>>
  /\ docs = {}
  /\ nextRowid = 2
  /\ Len(config) = 3

\* ---- C21
\* C21: in every reachable state of AddDocuments, also when the batch names
\* one path twice and two or more workers race on its delete and insert,
\* the store holds at most one row with any given path.
C21_UniqueUnderRace ==
  \A p \in Paths : Cardinality(RowsOf(p)) <= 1

\* ---- C22
\* The pool size the caller asked for: maxWorkers, or the default of 10 when
\* it is zero or negative.
PoolSize == IF maxWorkers <= 0 THEN 10 ELSE maxWorkers

\* C22: at every moment of AddDocuments the number of items a worker has
\* taken from the queue and not yet reported is at most maxWorkers (at
\* most 10 when maxWorkers <= 0), and no more workers than that exist.
C22_BoundedConcurrency ==
  /\ Cardinality(DOMAIN inflight) <= PoolSize
  /\ spawned <= PoolSize
  /\ Cardinality(DOMAIN inflight) + idle + exited = spawned

\* One worker is busy with the first of two items while the second waits
\* in the queue.
C22_Witness ==
  /\ maxWorkers = 1
  /\ Len(paths) = 2
  /\ Cardinality(DOMAIN inflight) = 1
  /\ pathChan # <<>>
  /\ idle = 0

\* ---- C23
Reranked == RerankDocuments(FusedList, last.response.order)

StatOrReadFails(path) ==
  \/ StatKind(path) = "error"
  \/ StatKind(path) = "file" /\ (ReadFails(path, 1) \/ ReadFails(path, 2))

\* C24: AddDocument on a local path whose stat or read fails returns an
\* error for it and stores nothing; the path is not passed over in silence
\* as a file that is not text.
C24_StatReadFailuresAreErrors ==
  (last.cmd = "AddDocument" /\ StatOrReadFails(last.log[1].path)) =>
     /\ last.log[1].err # ""
     /\ ~last.log[1].stored

\* ---- C25
\* C25: InitDatabase on a store that has the documents and config tables
\* changes neither the documents, the config rows nor the table's vector
\* dimension, whatever embedding size it is called with; after InitDatabase
\* on an empty store both the documents table and the config table exist.
C25_InitDatabaseIdempotent ==
  [][last'.cmd = "InitDatabase" =>
        /\ (dbExists /\ ConfigTableExists(config)) =>
              /\ docs' = docs
              /\ config' = config
              /\ tableDim' = tableDim
        /\ dbExists'
        /\ ConfigTableExists(config')
    ]_vars

\* C26: the persisted config holds at most one value per key, whatever
\* sequence of SaveConfig calls has been made (GetConfig then returns, for
\* each key, the value of the most recent SaveConfig that wrote it).
C26_ConfigSingleton ==
  \A i, j \in 1..Len(config) : config[i].key = config[j].key => i = j

\* C27: add and reindex never run at once on one database: while the
\* reindex process is between its first and its last statement the add
\* process is not ingesting, and the other way round.
C27_AddReindexSerialized ==
  ~(/\ procs["add"].at \in {"prepare", "delete", "insert"}
    /\ procs["reindex"].at \in {"prepare", "delete", "insert", "save"})

\* C28: an AddDocument that returns an error on a path already in the store
\* leaves the previous row of that path in place, content and embedding
\* included.
C28_FailedAddKeepsPrevious ==
  [][(last'.cmd = "AddDocument" /\ last'.log[1].err # "") =>
        \A r \in docs : r.filepath = last'.log[1].path => r \in docs']_vars

\* C29: after an invocation that did not end in a fatal error or in the
\* model-mismatch exit, the config table holds embedding_model equal to the
\* configured model.
C29_ModelRecorded ==
  (last.cmd # "none" /\ last.exit \in {"ok", "early"}) =>
     ConfigValue(config, "embedding_model") = Model

\* C30: RemoveDocument(id) on a store that holds a document with that id
\* returns no error, removes that document and no other, and leaves the
\* config alone; on a store that holds none it returns the error "no
\* document found" and leaves documents and config as they were.
C30_RemoveExactlyOne ==
  [][last'.cmd = "RemoveDocument" =>
        /\ config' = config
        /\ IF \E r \in docs : r.rowid = last'.id
           THEN /\ last'.err = ""
                /\ \A r \in docs : (r \in docs') <=> (r.rowid # last'.id)
                /\ docs' \subseteq docs
           ELSE /\ last'.err = "no document found"
                /\ docs' = docs]_vars

\* A RemoveDocument that succeeded and left another document in the store.
C30_Witness ==
  /\ last.cmd = "RemoveDocument"
  /\ last.err = ""
  /\ docs # {}
  /\ \A r \in docs : r.rowid # last.id

====
